---- MODULE Spec2Model ----
(***************************************************************************)
(* Model of pareto/utilities/cm_utils/opt_utils.py.                        *)
(*                                                                         *)
(* Part I  : the two staged-solve routines max_recovery_with_infrastructure*)
(*           and cost_optimal (specification Spec).                        *)
(* Part II : max_theoretical_recovery_flow and                             *)
(*           max_theoretical_recovery_flow_opt (specification SpecFlow).   *)
(*                                                                         *)
(* Python floats are modelled by exact rationals; the solver is modelled   *)
(* by its contract (a termination status, and on optimal termination the   *)
(* optimum written back into the model).                                   *)
(***************************************************************************)
EXTENDS Integers, Sequences, FiniteSets, TLC

(***************************************************************************)
(* Bounds of the model.                                                    *)
(***************************************************************************)
\* number of time periods indexing Dflow
MaxT == 1
\* how many constraint flags the freshly built model may have switched off
MaxInitInactive == 1

(***************************************************************************)
(* PART I : staged solves                                                  *)
(***************************************************************************)
VARIABLES fn, pc, model, nbuilt, conActive, dflowActive, objActive, fixed,
          vals, status, solves, calls, returned

stagedVars == <<fn, pc, model, nbuilt, conActive, dflowActive, objActive,
                fixed, vals, status, solves, calls, returned>>

\* state of the theoretical-recovery computations (PART II)
VARIABLES p_alpha, p_alphaW, desired_in, p_FGen,
          fpc, desired_li_conc, produced_flows_conc, idx, cumulative_f,
          cumulative_li, li_conc, result, raisedAt,
          opc, ostatus, oresult

flowVars == <<p_alpha, p_alphaW, desired_in, p_FGen,
              fpc, desired_li_conc, produced_flows_conc, idx, cumulative_f,
              cumulative_li, li_conc, result, raisedAt,
              opc, ostatus, oresult>>

vars == <<stagedVars, flowVars>>

Functions == {"max_recovery_with_infrastructure", "cost_optimal"}

\* the concentration constraints (conclist) and flow / inventory
\* constraints (flowlist) of the model, by component name
conclist == {"MSconc", "Pconc", "Cconc", "Sconc", "Wconc", "TINconc",
             "NTTWconc", "NTCWconc", "NTSrcconc", "minconccon"}

flowlist == {"Cflow", "noinvflow", "Sinv", "Dflow", "Wflow", "TINflow",
             "NTTWflow", "NTCWflow"}

ConNames == conclist \cup flowlist

\* objectives and variables of the model that the routines name
ObjNames == {"obj", "br_obj", "treatment_only_obj"}
VarNames == {"v_C", "v_F"}

\* index set of the indexed constraint Dflow: (node, time)
DflowNodes == {"K1_TW", "K1_CW", "K2_TW"}
DflowKeys == DflowNodes \X (1..MaxT)

\* termination conditions a solve can report
TermConds == {"optimal", "infeasible", "maxIterations", "error"}

\* component.activate() / component.deactivate() on a set of components:
\* a component's own flag is set, and an indexed component (Dflow) passes
\* the call on to every one of its entries
ActivateCons(act, names) == act \cup names
DeactivateCons(act, names) == act \ names
ActivateEntries(ent, names) == IF "Dflow" \in names THEN DflowKeys ELSE ent
DeactivateEntries(ent, names) == IF "Dflow" \in names THEN {} ELSE ent

\* obj_fix(model, vars, activate, deactivate): fixes the named variables,
\* leaves every other variable unfixed, switches the given constraints
\* off / on and hands back the model it was given
obj_fix(m, vs, activate, deactivate) ==
    [model   |-> m,
     fixed   |-> vs \cap VarNames,
     con     |-> ActivateCons(DeactivateCons(conActive, deactivate), activate),
     entries |-> ActivateEntries(DeactivateEntries(dflowActive, deactivate), activate)]

\* arguments of the two obj_fix calls
FirstFixVars == {"v_C"}
FirstActivate == flowlist
FirstDeactivate == conclist
SecondFixVars_mut == {"v_C"}
SecondFixVars == {}
SecondActivate_mut == flowlist
SecondActivate == conclist \cup flowlist
SecondDeactivate == {}

\* objectives switched off / on at the start of max_recovery_with_infrastructure
ObjDeactivate_mut(f) == IF f = "max_recovery_with_infrastructure" THEN {"obj"} ELSE {}
ObjDeactivate(f) == IF f = "max_recovery_with_infrastructure" THEN {"obj", "br_obj"} ELSE {}
ObjActivate(f) == IF f = "max_recovery_with_infrastructure" THEN {"treatment_only_obj"} ELSE {}

\* the Dflow entries switched off before the bilinear solve
IsTreatmentInletKey_mut(k) == k[1] = "K1_TW"
IsTreatmentInletKey(k) == k[1] = "K1_TW" \/ k[1] = "K1_CW"

\* solver options set for the second solve
SecondOptions(f) == IF f = "max_recovery_with_infrastructure"
                    THEN {"ma27_pivtol", "tol"} ELSE {"max_iter"}

\* pyo.assert_optimal_termination(status): control continues at next only
\* on optimal termination, otherwise the exception ends the call
assert_optimal_termination_mut(st, next) == next
assert_optimal_termination(st, next) == IF st = "optimal" THEN next ELSE "aborted"

\* no theoretical-recovery computation is in progress
FlowIdle ==
    /\ p_alpha = 0 /\ p_alphaW = <<0, 1>> /\ desired_in = 0 /\ p_FGen = <<>>
    /\ fpc = "idle" /\ desired_li_conc = <<0, 1>> /\ produced_flows_conc = <<>>
    /\ idx = 0 /\ cumulative_f = <<0, 1>> /\ cumulative_li = <<0, 1>>
    /\ li_conc = <<0, 1>> /\ result = <<0, 1>> /\ raisedAt = 0
    /\ opc = "idle" /\ ostatus = "none" /\ oresult = <<0, 1>>

Init ==
    /\ FlowIdle
    /\ fn \in Functions
    /\ pc = "build"
    /\ model = 0
    /\ nbuilt = 0
    /\ conActive = {}
    /\ dflowActive = {}
    /\ objActive = {}
    /\ fixed = {}
    /\ vals = 0
    /\ status = "none"
    /\ solves = <<>>
    /\ calls = <<>>
    /\ returned = 0

\* model = build_qcp_br(data): a fresh model object; which of its
\* components are active and which variables are fixed is the builder's choice
build_qcp_br ==
    /\ pc = "build"
    /\ nbuilt' = nbuilt + 1
    /\ model' = nbuilt + 1
    /\ \E offCon \in SUBSET ConNames, offEnt \in SUBSET DflowKeys :
          /\ Cardinality(offCon) + Cardinality(offEnt) <= MaxInitInactive
          /\ conActive' = ConNames \ offCon
          /\ dflowActive' = DflowKeys \ offEnt
    /\ objActive' \in SUBSET ObjNames
    /\ fixed' \in SUBSET VarNames
    /\ vals' = 0
    /\ calls' = Append(calls, "build_qcp_br")
    /\ pc' = IF fn = "max_recovery_with_infrastructure" THEN "objs" ELSE "fix1"
    /\ UNCHANGED <<flowVars, fn, status, solves, returned>>

\* model.obj.deactivate(); model.br_obj.deactivate();
\* model.treatment_only_obj.activate()
SelectObjective ==
    /\ pc = "objs"
    /\ objActive' = (objActive \ ObjDeactivate(fn)) \cup ObjActivate(fn)
    /\ calls' = Append(calls, "objectives")
    /\ pc' = "fix1"
    /\ UNCHANGED <<flowVars, fn, model, nbuilt, conActive, dflowActive, fixed, vals,
                   status, solves, returned>>

\* model = obj_fix(model, ["v_C"], activate=flowlist, deactivate=conclist)
FirstObjFix_mut ==
    /\ pc = "fix1"
    /\ LET r == obj_fix(model, FirstFixVars, FirstDeactivate, FirstActivate) IN
          /\ model' = r.model
          /\ fixed' = r.fixed
          /\ conActive' = r.con
          /\ dflowActive' = r.entries
    /\ calls' = Append(calls, "obj_fix")
    /\ pc' = "solve1"
    /\ UNCHANGED <<flowVars, fn, nbuilt, objActive, vals, status, solves, returned>>

FirstObjFix ==
    /\ pc = "fix1"
    /\ LET r == obj_fix(model, FirstFixVars, FirstActivate, FirstDeactivate) IN
          /\ model' = r.model
          /\ fixed' = r.fixed
          /\ conActive' = r.con
          /\ dflowActive' = r.entries
    /\ calls' = Append(calls, "obj_fix")
    /\ pc' = "solve1"
    /\ UNCHANGED <<flowVars, fn, nbuilt, objActive, vals, status, solves, returned>>

\* status = opt.solve(model): the solver reads the model's current state,
\* reports a termination condition and, when optimal, leaves its solution
\* in the model's variables
Solve(stage, options, next) ==
    /\ \E st \in TermConds :
          /\ status' = st
          /\ solves' = Append(solves, [stage |-> stage, model |-> model,
                                       start |-> vals, fixed |-> fixed,
                                       options |-> options, status |-> st])
          /\ vals' \in (IF st = "optimal" THEN {stage} ELSE {vals, stage})
    /\ calls' = Append(calls, "solve")
    /\ pc' = next
    /\ UNCHANGED <<flowVars, fn, model, nbuilt, conActive, dflowActive, objActive,
                   fixed, returned>>

\* the linear flow solve
FirstSolve ==
    /\ pc = "solve1"
    /\ Solve(1, {}, "assert1")

\* pyo.assert_optimal_termination(status) after the first solve
FirstAssert ==
    /\ pc = "assert1"
    /\ pc' = assert_optimal_termination(status, "fix2")
    /\ UNCHANGED <<flowVars, fn, model, nbuilt, conActive, dflowActive, objActive,
                   fixed, vals, status, solves, calls, returned>>

\* model = obj_fix(model, [], deactivate=[], activate=conclist + flowlist)
SecondObjFix_mut ==
    /\ pc = "fix2"
    /\ nbuilt' = nbuilt + 1
    /\ model' = nbuilt + 1
    /\ fixed' = SecondFixVars
    /\ conActive' = ConNames
    /\ dflowActive' = DflowKeys
    /\ vals' = 0
    /\ calls' = Append(calls, "build_qcp_br")
    /\ pc' = IF fn = "max_recovery_with_infrastructure" THEN "toggle" ELSE "solve2"
    /\ UNCHANGED <<flowVars, fn, objActive, status, solves, returned>>

SecondObjFix ==
    /\ pc = "fix2"
    /\ LET r == obj_fix(model, SecondFixVars, SecondActivate, SecondDeactivate) IN
          /\ model' = r.model
          /\ fixed' = r.fixed
          /\ conActive' = r.con
          /\ dflowActive' = r.entries
    /\ calls' = Append(calls, "obj_fix")
    /\ pc' = IF fn = "max_recovery_with_infrastructure" THEN "toggle" ELSE "solve2"
    /\ UNCHANGED <<flowVars, fn, nbuilt, objActive, vals, status, solves, returned>>

\* model.TINflow.deactivate(), and model.Dflow[k].deactivate() for the
\* entries of the treatment inlet nodes
DeactivateTreatmentInlet ==
    /\ pc = "toggle"
    /\ conActive' = DeactivateCons(conActive, {"TINflow"})
    /\ dflowActive' = {k \in dflowActive : ~IsTreatmentInletKey(k)}
    /\ calls' = Append(calls, "deactivate")
    /\ pc' = "solve2"
    /\ UNCHANGED <<flowVars, fn, model, nbuilt, objActive, fixed, vals, status, solves,
                   returned>>

\* the bilinear solve
SecondSolve ==
    /\ pc = "solve2"
    /\ Solve(2, SecondOptions(fn), "assert2")

\* pyo.assert_optimal_termination(status) after the second solve, then
\* return model
SecondAssertReturn ==
    /\ pc = "assert2"
    /\ pc' = assert_optimal_termination(status, "returned")
    /\ returned' = IF pc' = "returned" THEN model ELSE returned
    /\ UNCHANGED <<flowVars, fn, model, nbuilt, conActive, dflowActive, objActive,
                   fixed, vals, status, solves, calls>>

Next ==
    \/ build_qcp_br
    \/ SelectObjective
    \/ FirstObjFix
    \/ FirstSolve
    \/ FirstAssert
    \/ SecondObjFix
    \/ DeactivateTreatmentInlet
    \/ SecondSolve
    \/ SecondAssertReturn

Spec == Init /\ [][Next]_vars

(***************************************************************************)
(* Properties of the staged solves                                         *)
(***************************************************************************)
\* number of occurrences of call c in the sequence of calls made so far
RECURSIVE CountCalls(_, _)
CountCalls(cs, c) ==
    IF cs = <<>> THEN 0
    ELSE (IF Head(cs) = c THEN 1 ELSE 0) + CountCalls(Tail(cs), c)

\* the constraint names as the routines list them
ConcNames == {"MSconc", "Pconc", "Cconc", "Sconc", "Wconc", "TINconc",
              "NTTWconc", "NTCWconc", "NTSrcconc", "minconccon"}
FlowNames == {"Cflow", "noinvflow", "Sinv", "Dflow", "Wflow", "TINflow",
              "NTTWflow", "NTCWflow"}
InletKeys == {k \in DflowKeys : k[1] \in {"K1_TW", "K1_CW"}}

\* C1: a solve that does not terminate optimally ends the call on the spot:
\* after a non-optimal first solve there is no second obj_fix, no stage-2
\* deactivation and no second solve; after any non-optimal solve nothing is
\* returned and no further solve follows; each stage is solved at most once.
C1_AbortOnNonOptimal ==
    /\ Len(solves) <= 2
    /\ \A i \in 1..Len(solves) : solves[i].stage = i
    /\ \A i \in 1..Len(solves) :
          solves[i].status # "optimal" =>
             /\ i = Len(solves)
             /\ returned = 0
             /\ pc \in {"assert1", "assert2", "aborted"}
    /\ (Len(solves) >= 1 /\ solves[1].status # "optimal") =>
             /\ CountCalls(calls, "obj_fix") = 1
             /\ CountCalls(calls, "deactivate") = 0
             /\ CountCalls(calls, "solve") = 1
    /\ CountCalls(calls, "solve") = Len(solves)

C1_Witness ==
    /\ pc = "aborted"
    /\ Len(solves) = 1
    /\ solves[1].status = "infeasible"

\* C2: a call whose two solves are both optimal builds the model once,
\* solves twice (linear flow solve, then bilinear solve) on that one model
\* object, the second solve starting from the values the first one left,
\* and returns that object.
C2_OneModelTwoSolves ==
    (Len(solves) = 2 /\ solves[1].status = "optimal"
                     /\ solves[2].status = "optimal" /\ pc = "returned") =>
        /\ nbuilt = 1
        /\ CountCalls(calls, "build_qcp_br") = 1
        /\ solves[1].stage = 1 /\ solves[1].options = {}
        /\ solves[2].stage = 2 /\ solves[2].options = SecondOptions(fn)
        /\ solves[1].model = 1
        /\ solves[2].model = 1
        /\ solves[1].start = 0
        /\ solves[2].start = 1
        /\ returned = 1

C2_Witness ==
    /\ pc = "returned"
    /\ returned = 1
    /\ Len(solves) = 2
    /\ solves[2].status = "optimal"

\* C3: when the first solve is invoked every concentration constraint is
\* inactive, every flow / inventory constraint (with every Dflow entry) is
\* active and v_C is fixed.
C3_FirstSolveSetup ==
    pc = "solve1" =>
        /\ ConcNames \cap conActive = {}
        /\ FlowNames \subseteq conActive
        /\ dflowActive = DflowKeys
        /\ "v_C" \in fixed

C3_Witness ==
    /\ pc = "solve1"
    /\ "v_C" \in fixed
    /\ conActive = FlowNames

\* C4: in cost_optimal, when the second solve is invoked and in the returned
\* model, every constraint of conclist and of flowlist is active.
C4_AllReactivated ==
    (fn = "cost_optimal" /\ pc \in {"solve2", "assert2", "returned"}) =>
        /\ ConcNames \cup FlowNames \subseteq conActive
        /\ dflowActive = DflowKeys

C4_Witness ==
    /\ fn = "cost_optimal"
    /\ pc = "returned"
    /\ conActive = ConcNames \cup FlowNames

\* C5: v_C is fixed during the first solve and unfixed during the second,
\* so the two solves run with different sets of fixed variables.
C5_DifferentFixedVars ==
    /\ Len(solves) >= 1 => "v_C" \in solves[1].fixed
    /\ pc = "solve2" => "v_C" \notin fixed
    /\ Len(solves) = 2 =>
          /\ "v_C" \notin solves[2].fixed
          /\ solves[2].fixed # solves[1].fixed

C5_Witness ==
    /\ Len(solves) = 2
    /\ solves[1].fixed = {"v_C"}
    /\ solves[2].fixed = {}

\* C8: in max_recovery_with_infrastructure, when the second solve is invoked
\* and in the returned model, TINflow and the Dflow entries of K1_TW and
\* K1_CW are inactive, and every other constraint and Dflow entry is active.
C8_TreatmentInletOff ==
    (fn = "max_recovery_with_infrastructure"
        /\ pc \in {"solve2", "assert2", "returned"}) =>
        /\ "TINflow" \notin conActive
        /\ InletKeys \cap dflowActive = {}
        /\ ConcNames \subseteq conActive
        /\ FlowNames \ {"TINflow"} \subseteq conActive
        /\ DflowKeys \ InletKeys \subseteq dflowActive

C8_Witness ==
    /\ fn = "max_recovery_with_infrastructure"
    /\ pc = "returned"
    /\ "TINflow" \notin conActive
    /\ dflowActive = DflowKeys \ InletKeys
    /\ dflowActive # {}

\* C9: in max_recovery_with_infrastructure, from before the first solve on,
\* obj and br_obj are inactive and treatment_only_obj is active; in
\* cost_optimal no step after the build changes any objective's activation.
C9_ObjectivesFrame ==
    /\ [](fn = "max_recovery_with_infrastructure"
            /\ pc \in {"fix1", "solve1", "assert1", "fix2", "toggle",
                       "solve2", "assert2", "returned", "aborted"}
          => objActive = {"treatment_only_obj"})
    /\ [][(fn = "cost_optimal" /\ pc # "build") => objActive' = objActive]_vars

C9_Witness ==
    /\ fn = "max_recovery_with_infrastructure"
    /\ pc = "returned"
    /\ objActive = {"treatment_only_obj"}
    /\ Len(solves) = 2

TypeOK ==
    /\ fn \in Functions \cup {"none"}
    /\ model \in 0..2
    /\ conActive \subseteq ConNames
    /\ dflowActive \subseteq DflowKeys
    /\ objActive \subseteq ObjNames
    /\ fixed \subseteq VarNames
    /\ Len(solves) <= 2

(***************************************************************************)
(* PART II : max_theoretical_recovery_flow(_opt)                           *)
(***************************************************************************)
\* bounds on the inputs
MaxStreams == 2
MaxFGen == 2
MaxConc == 3
MaxDesired == 3

\* Python numbers as exact rationals <<numerator, denominator>>, kept in
\* lowest terms with a positive denominator
Abs(i) == IF i < 0 THEN -i ELSE i

RECURSIVE GCD(_, _)
GCD(a, b) == IF b = 0 THEN a ELSE GCD(b, a % b)

Norm(n, d) ==
    LET g == GCD(Abs(n), Abs(d))
        sg == IF d < 0 THEN -1 ELSE 1
    IN  <<sg * (n \div g), sg * (d \div g)>>

Zero == <<0, 1>>
RInt(i) == <<i, 1>>
RAdd(x, y) == Norm(x[1] * y[2] + y[1] * x[2], x[2] * y[2])
RSub(x, y) == Norm(x[1] * y[2] - y[1] * x[2], x[2] * y[2])
RMul(x, y) == Norm(x[1] * y[1], x[2] * y[2])
\* x / y, for y # 0
RDiv(x, y) == Norm(x[1] * y[2], x[2] * y[1])
RLt(x, y) == x[1] * y[2] < y[1] * x[2]
RGt(x, y) == RLt(y, x)
RLe(x, y) == ~RLt(y, x)
IsZero(x) == x[1] = 0

\* the values of p_alphaW[treatment_unit] considered
AlphaWs == {<<0, 1>>, <<1, 2>>}
\* the values of p_alpha[treatment_unit, "Li"] considered, in thousandths
AlphaLis == {999, 1000}

\* the streams of p_FGen in iteration order: flow p_FGen[t] (bbl/day) and
\* Li concentration p_CGen[t[0], "Li", t[1]]
Streams == [f : 0..MaxFGen, c : 0..MaxConc]
StreamLists == UNION {[1..n -> Streams] : n \in 0..MaxStreams}

\* assert model.p_alpha[treatment_unit, "Li"] > 0.999
AlphaAssertHolds(a) == a > 999

\* desired_li_conc * (1 - alphaW)
OneMinus(aw) == RSub(RInt(1), aw)
AdjustedDesired(d, aw) == RMul(RInt(d), OneMinus(aw))

\* f = value(p_FGen[t]) * 7; c = value(p_CGen[...]); append((f, c))
FlowConc(str) == [f |-> RInt(str.f * 7), c |-> RInt(str.c)]

\* list.sort(key=lambda t: t[1], reverse=True): stable, largest
\* concentration first
RECURSIVE InsertDesc(_, _)
InsertDesc(sorted, e) ==
    IF sorted = <<>> THEN <<e>>
    ELSE IF RLt(Head(sorted).c, e.c) THEN <<e>> \o sorted
         ELSE <<Head(sorted)>> \o InsertDesc(Tail(sorted), e)

RECURSIVE SortDesc(_)
SortDesc(lst) ==
    IF lst = <<>> THEN <<>>
    ELSE InsertDesc(SortDesc(SubSeq(lst, 1, Len(lst) - 1)), lst[Len(lst)])

StagedIdle ==
    /\ fn = "none" /\ pc = "idle" /\ model = 0 /\ nbuilt = 0
    /\ conActive = {} /\ dflowActive = {} /\ objActive = {} /\ fixed = {}
    /\ vals = 0 /\ status = "none" /\ solves = <<>> /\ calls = <<>>
    /\ returned = 0

\* both functions are called on the same model, unit and desired concentration
FlowInit ==
    /\ StagedIdle
    /\ p_alpha \in AlphaLis
    /\ p_alphaW \in AlphaWs
    /\ desired_in \in 1..MaxDesired
    /\ p_FGen \in StreamLists
    /\ fpc = "start"
    /\ desired_li_conc = Zero
    /\ produced_flows_conc = <<>>
    /\ idx = 0
    /\ cumulative_f = Zero
    /\ cumulative_li = Zero
    /\ li_conc = Zero
    /\ result = Zero
    /\ raisedAt = 0
    /\ opc = "start"
    /\ ostatus = "none"
    /\ oresult = Zero

InputVars == <<p_alpha, p_alphaW, desired_in, p_FGen>>
OptVars == <<opc, ostatus, oresult>>
GreedyVars == <<fpc, desired_li_conc, produced_flows_conc, idx, cumulative_f,
                cumulative_li, li_conc, result, raisedAt>>

\* max_theoretical_recovery_flow, up to the sorted list (lines 31-51);
\* raisedAt is the source line of the exception that ended the call
MTRF_Begin ==
    /\ fpc = "start"
    /\ IF ~AlphaAssertHolds(p_alpha)
       THEN /\ fpc' = "raised"
            /\ raisedAt' = 31
            /\ UNCHANGED <<desired_li_conc, produced_flows_conc, idx>>
       ELSE /\ desired_li_conc' = AdjustedDesired(desired_in, p_alphaW)
            /\ produced_flows_conc' =
                  SortDesc([i \in 1..Len(p_FGen) |-> FlowConc(p_FGen[i])])
            /\ idx' = 1
            /\ fpc' = "loop"
            /\ UNCHANGED raisedAt
    /\ cumulative_f' = Zero
    /\ cumulative_li' = Zero
    /\ li_conc' = Zero
    /\ UNCHANGED <<result, InputVars, OptVars, stagedVars>>

\* one iteration of "for f, c in produced_flows_conc" (lines 52-68)
MTRF_Iterate ==
    /\ fpc = "loop"
    /\ idx <= Len(produced_flows_conc)
    /\ LET f == produced_flows_conc[idx].f
           c == produced_flows_conc[idx].c
           cf == RAdd(cumulative_f, f)
           cli == RAdd(cumulative_li, RMul(f, c))
       IN  IF IsZero(cf)
           THEN \* li_conc = cli / cf
                /\ fpc' = "raised" /\ raisedAt' = 55
                /\ UNCHANGED <<cumulative_f, cumulative_li, li_conc, idx>>
           ELSE IF RGt(RDiv(cli, cf), desired_li_conc)
           THEN /\ li_conc' = RDiv(cli, cf)
                /\ cumulative_f' = cf
                /\ cumulative_li' = cli
                /\ idx' = idx + 1
                /\ UNCHANGED <<fpc, raisedAt>>
           ELSE IF IsZero(RSub(desired_li_conc, c))
           THEN \* ff = (...) / (desired_li_conc - c)
                /\ li_conc' = RDiv(cli, cf)
                /\ fpc' = "raised" /\ raisedAt' = 61
                /\ UNCHANGED <<cumulative_f, cumulative_li, idx>>
           ELSE LET ff == RDiv(RSub(cumulative_li,
                                    RMul(desired_li_conc, cumulative_f)),
                               RSub(desired_li_conc, c))
                    ncf == RAdd(cumulative_f, ff)
                    ncli == RAdd(cumulative_li, RMul(ff, c))
                IN  /\ cumulative_f' = ncf
                    /\ cumulative_li' = ncli
                    /\ IF IsZero(ncf)
                       THEN \* li_conc = cumulative_li / cumulative_f
                            /\ li_conc' = RDiv(cli, cf)
                            /\ fpc' = "raised" /\ raisedAt' = 67
                       ELSE /\ li_conc' = RDiv(ncli, ncf)
                            /\ fpc' = "break"
                            /\ UNCHANGED raisedAt
                    /\ UNCHANGED idx
    /\ UNCHANGED <<desired_li_conc, produced_flows_conc, result, InputVars,
                   OptVars, stagedVars>>

\* return cumulative_f * (1 - alphaW), after the loop ran out or broke
MTRF_Return ==
    /\ \/ fpc = "loop" /\ idx > Len(produced_flows_conc)
       \/ fpc = "break"
    /\ result' = RMul(cumulative_f, OneMinus(p_alphaW))
    /\ fpc' = "returned"
    /\ UNCHANGED <<desired_li_conc, produced_flows_conc, idx, cumulative_f,
                   cumulative_li, li_conc, raisedAt, InputVars, OptVars,
                   stagedVars>>

\* ---- the LP of max_theoretical_recovery_flow_opt ----
\* lower bound of mm.cumulative_F
CumulativeFLowerBound == 10

RECURSIVE SumOver(_, _)
\* sum of g[i] over the finite set S of indices
SumOver(S, g) ==
    IF S = {} THEN Zero
    ELSE LET i == CHOOSE j \in S : TRUE
         IN  RAdd(g[i], SumOver(S \ {i}, g))

\* upper bound of mm.F[t], and the coefficient of mm.F[t] in
\* total_li - desired_li_conc * cumulative_F
UpperF(lst) == [i \in 1..Len(lst) |-> RInt(lst[i].f * 7)]
Margin(lst, d) == [i \in 1..Len(lst) |-> RSub(RInt(lst[i].c), d)]

\* totals sum(F) of the vertices of {0 <= F <= upper, quality_con}: every
\* stream but at most one is at a bound, and that one is at a bound or
\* makes quality_con tight
VertexTotals(lst, d) ==
    LET N == 1..Len(lst)
        U == UpperF(lst)
        mg == Margin(lst, d)
        slack(T) == SumOver(T, [i \in N |-> RMul(U[i], mg[i])])
        total(T) == SumOver(T, U)
        full == {total(T) : T \in {X \in SUBSET N : RLe(Zero, slack(X))}}
        part == {RAdd(total(TJ[1]), RDiv(slack(TJ[1]), RSub(Zero, mg[TJ[2]]))) :
                   TJ \in {Y \in (SUBSET N) \X N :
                             /\ Y[2] \notin Y[1]
                             /\ ~IsZero(mg[Y[2]])
                             /\ LET x == RDiv(slack(Y[1]), RSub(Zero, mg[Y[2]]))
                                IN  RLe(Zero, x) /\ RLe(x, U[Y[2]])}}
    IN  full \cup part

RMax(S) == CHOOSE x \in S : \A y \in S : RLe(y, x)

\* the optimum of max cumulative_F without the lower bound on cumulative_F
LPMax(lst, d) == RMax(VertexTotals(lst, d))

\* the LP is feasible iff some point reaches the lower bound of cumulative_F
LPFeasible(lst, d) == RLe(RInt(CumulativeFLowerBound), LPMax(lst, d))

\* max_theoretical_recovery_flow_opt, up to the solve (lines 86-108)
MTRFO_Begin ==
    /\ opc = "start"
    /\ opc' = IF AlphaAssertHolds(p_alpha) THEN "solve" ELSE "raised"
    /\ UNCHANGED <<ostatus, oresult, InputVars, GreedyVars, stagedVars>>

\* status = SolverFactory("ipopt").solve(mm); assert_optimal_termination;
\* return value(mm.cumulative_F) * (1 - alphaW)
MTRFO_Solve ==
    /\ opc = "solve"
    /\ LET d == AdjustedDesired(desired_in, p_alphaW) IN
       \E st \in TermConds :
          /\ st = "optimal" => LPFeasible(p_FGen, d)
          /\ st = "infeasible" => ~LPFeasible(p_FGen, d)
          /\ ostatus' = st
          /\ opc' = assert_optimal_termination(st, "returned")
          /\ oresult' = IF st = "optimal"
                        THEN RMul(LPMax(p_FGen, d), OneMinus(p_alphaW))
                        ELSE oresult
    /\ UNCHANGED <<InputVars, GreedyVars, stagedVars>>

FlowNext ==
    \/ MTRF_Begin
    \/ MTRF_Iterate
    \/ MTRF_Return
    \/ MTRFO_Begin
    \/ MTRFO_Solve

SpecFlow == FlowInit /\ [][FlowNext]_vars

FlowTypeOK ==
    /\ fpc \in {"start", "loop", "break", "returned", "raised"}
    /\ opc \in {"start", "solve", "returned", "aborted", "raised"}
    /\ raisedAt \in {0, 31, 55, 61, 67}
    /\ cumulative_f[2] > 0 /\ result[2] > 0 /\ oresult[2] > 0

\* whenever the sort-and-accumulate routine returns, it returns the LP
\* optimum (without the lower bound on cumulative_F) scaled by 1 - alphaW
GreedyIsOptimalWhenItReturns ==
    fpc = "returned" =>
        result = RMul(LPMax(p_FGen, AdjustedDesired(desired_in, p_alphaW)),
                      OneMinus(p_alphaW))

(***************************************************************************)
(* Properties of the theoretical-recovery computations                     *)
(***************************************************************************)
TheDesired == AdjustedDesired(desired_in, p_alphaW)
GreedyDone == fpc \in {"returned", "raised"}
OptDone == opc \in {"returned", "aborted", "raised"}
TotalAvailable == SumOver(1..Len(p_FGen), UpperF(p_FGen))

\* C6: for every input with p_alpha > 0.999 that admits an allocation of
\* positive flow whose blended concentration reaches the adjusted desired
\* concentration, max_theoretical_recovery_flow returns (1 - alphaW) times
\* the largest total flow of such an allocation.
C6_GreedyAttainsOptimum ==
    (GreedyDone /\ AlphaAssertHolds(p_alpha)
                /\ RGt(LPMax(p_FGen, TheDesired), Zero)) =>
        /\ fpc = "returned"
        /\ result = RMul(LPMax(p_FGen, TheDesired), OneMinus(p_alphaW))

\* C7: max_theoretical_recovery_flow_opt returns the same value as
\* max_theoretical_recovery_flow: on an input with at least one stream and
\* positive flows for which the sort-and-accumulate routine returns a value,
\* the LP routine (its solver not failing on a feasible problem) returns
\* that value too.
C7_SameValue ==
    (fpc = "returned" /\ OptDone /\ ostatus \in {"optimal", "infeasible"}
        /\ Len(p_FGen) >= 1 /\ \A i \in 1..Len(p_FGen) : p_FGen[i].f > 0) =>
          (opc = "returned" /\ oresult = result)

\* C10: with at least one stream, all flows strictly positive and
\* p_alpha > 0.999, max_theoretical_recovery_flow returns normally, with a
\* value between 0 and (1 - alphaW) times the total available flow.
C10_TerminatesInRange ==
    (GreedyDone /\ AlphaAssertHolds(p_alpha) /\ Len(p_FGen) >= 1
                /\ \A i \in 1..Len(p_FGen) : p_FGen[i].f > 0) =>
        /\ fpc = "returned"
        /\ RLe(Zero, result)
        /\ RLe(result, RMul(TotalAvailable, OneMinus(p_alphaW)))
====
